---------------------------- MODULE Spec2Model ----------------------------
(***************************************************************************)
(* Scenario generation and caching of kota-ro-ya/asd_support.              *)
(*                                                                         *)
(*   app/services/cache_manager.py      CacheManager (memory + disk tier)  *)
(*   app/services/scenario_generator.py ScenarioGenerator                  *)
(*   app/services/agent_coordinator.py  AgentCoordinator (LLM Gateway)     *)
(*   app/config/settings.py             Settings                           *)
(*                                                                         *)
(* Every public method is one atomic action (the application is            *)
(* single-threaded per request).  The clock is datetime.now() counted in   *)
(* hours; a save reads the clock and then performs a file read and a file  *)
(* write, so the next reading of the clock is strictly later.              *)
(***************************************************************************)
EXTENDS Integers, Sequences, FiniteSets, TLC

VARIABLES
    now,                    \* datetime.now(), in hours since the start
    ENABLE_SCENARIO_CACHE,  \* Settings.ENABLE_SCENARIO_CACHE (fixed at start-up)
    memory_cache,           \* CacheManager._memory_cache: dict key -> cached_data
    scenario_cache_file,    \* data/cache/scenario_cache.json
    situation_cache_file,   \* data/cache/situation_cache.json
    validated,              \* history: <<key, artifact>> pairs that passed the quality gate
    saves,                  \* history: number of save_*_cache calls made so far
    ticks,                  \* history: number of clock advances made so far
    lastOp,                 \* the last call: name, arguments, return value, calls it made
    stream,                 \* the streaming generator being pulled: its frame and what it yielded
    writers                 \* concurrent save_scenario_cache calls: the frame of each

vars == <<now, ENABLE_SCENARIO_CACHE, memory_cache, scenario_cache_file,
          situation_cache_file, validated, saves, ticks, lastOp, stream, writers>>

---------------------------------------------------------------------------
(* Settings and bounds *)

CACHE_EXPIRY_HOURS == 24
AI_QUALITY_THRESHOLD == 80
PARENT_QUALITY_THRESHOLD == 75
DEFAULT_VERDICT_SCORE == 70

MAX_CACHE_SIZE == 2     \* Settings.MAX_CACHE_SIZE, scaled down from its default
TickHours == 24         \* hours that pass in one clock advance
MaxTicks == 1           \* clock advances in a behaviour
MaxSaves == 2           \* save_*_cache calls in a behaviour
MaxAccepted == 1        \* get_scene_with_variation calls that cache an artifact
MaxChunks == 2          \* chunks the Gateway sends on one stream
MaxAttempts == 2        \* max_attempts of generate_random_parent_situation
MaxDisplayLen == 5      \* characters of a display name

---------------------------------------------------------------------------
(* Values *)

None == [none |-> TRUE]

\* lastOp when no call is in progress
Idle == [name |-> "idle"]

\* no generator has been created; no concurrent writer exists
NoStream == [op |-> "none"]
NoWriters == <<>>

\* event names the event_file_map of ScenarioGenerator knows (written here by
\* the stem of the file they map to) and one name that it does not know
KnownEvents == {"toilet"}
UnknownEvent == "picnic"
EventNames == KnownEvents \cup {UnknownEvent}

\* arguments of the CacheManager calls; the situation file of an earlier
\* process also holds the id "s1", which this process does not ask for
SceneNumbers == 0 .. 3
SituationIds == {"0", "s2"}

\* str(n) of an f-string, for the scene numbers in use
Str(n) == CASE n = 0 -> "0" [] n = 1 -> "1" [] n = 2 -> "2" [] n = 3 -> "3"
            [] n = 4 -> "4" [] n = 5 -> "5" [] n = 6 -> "6" [] n = 7 -> "7"
            [] n = 8 -> "8" [] OTHER -> "9"

\* cache_key = f"{event_name}_{scene_number}"  /  f"{event_name}_{situation_id}"
ScenarioKey(event_name, scene_number) == event_name \o "_" \o Str(scene_number)
SituationKey(event_name, situation_id) == event_name \o "_" \o situation_id

\* datetime.isoformat() / datetime.fromisoformat(): a fixed-width digit string
Isoformat(t) == <<(t \div 100) % 10, (t \div 10) % 10, t % 10>>
FromIsoformat(s) == 100 * s[1] + 10 * s[2] + s[3]

\* Python's str comparison (lexicographic) on the digit strings
RECURSIVE StrLess(_, _)
StrLess(a, b) ==
    IF b = <<>> THEN FALSE
    ELSE IF a = <<>> THEN TRUE
    ELSE IF Head(a) # Head(b) THEN Head(a) < Head(b)
    ELSE StrLess(Tail(a), Tail(b))

---------------------------------------------------------------------------
(* Python dict: a sequence of <<key, value>> items in insertion order *)

EmptyDict == <<>>
DictKeys(d) == {d[i][1] : i \in 1 .. Len(d)}
DictHas(d, k) == k \in DictKeys(d)
DictGet(d, k) == LET i == CHOOSE j \in 1 .. Len(d) : d[j][1] = k IN d[i][2]
DictSet(d, k, v) ==
    IF DictHas(d, k)
    THEN [i \in 1 .. Len(d) |-> IF d[i][1] = k THEN <<k, v>> ELSE d[i]]
    ELSE Append(d, <<k, v>>)
DictDel(d, k) == SelectSeq(d, LAMBDA it : it[1] # k)

\* _memory_cache: its order is never observed, so it is a function on its keys
EmptyMem == [k \in {} |-> None]
MemHas(mem, k) == k \in DOMAIN mem
MemSet(mem, k, v) == [x \in DOMAIN mem \cup {k} |-> IF x = k THEN v ELSE mem[x]]
MemRestrict(mem, ks) == [k \in ks |-> mem[k]]

Range(seq) == {seq[i] : i \in 1 .. Len(seq)}

\* json.dump / json.load of a cache mapping: one row per key in the file
JsonDump(d) ==
    [i \in 1 .. Len(d) |->
        <<d[i][1], d[i][2].content, d[i][2].timestamp, d[i][2].expiry>>]
JsonLoad(text) ==
    [i \in 1 .. Len(text) |->
        <<text[i][1],
          [content |-> text[i][2], timestamp |-> text[i][3], expiry |-> text[i][4]]>>]

NoFile == [exists |-> FALSE, text |-> <<>>]

---------------------------------------------------------------------------
(* CacheManager *)

\* cached_data built by save_scenario_cache / save_situation_cache
CachedData(content, t) ==
    [content |-> content,
     timestamp |-> Isoformat(t),
     expiry |-> Isoformat(t + CACHE_EXPIRY_HOURS)]

\* the comparison turned round
_is_cache_valid_Inverted(cached_data, t) == FromIsoformat(cached_data.expiry) < t

_is_cache_valid(cached_data, t) == t < FromIsoformat(cached_data.expiry)

\* a file whose content json.load rejects: one row cut short
CorruptFile == [exists |-> TRUE, text |-> << <<"{">> >>]

\* json.load raises on the text of the file: a row is not whole
IsCorrupt(cache_file) ==
    cache_file.exists /\ \E i \in 1 .. Len(cache_file.text) : Len(cache_file.text[i]) # 4

\* what can be read of a malformed file is taken for an entry
_load_cache_file_Salvage(cache_file) ==
    IF ~cache_file.exists THEN EmptyDict
    ELSE IF IsCorrupt(cache_file)
    THEN << <<"lost+found", [content |-> cache_file.text[1], timestamp |-> Isoformat(0),
                             expiry |-> Isoformat(0)]>> >>
    ELSE JsonLoad(cache_file.text)

\* CacheManager._load_cache_file: {} for a missing file, and {} when open or
\* json.load raises
_load_cache_file(cache_file) ==
    IF ~cache_file.exists THEN EmptyDict
    ELSE IF IsCorrupt(cache_file) THEN EmptyDict
    ELSE JsonLoad(cache_file.text)

_save_cache_file(cache_data) == [exists |-> TRUE, text |-> JsonDump(cache_data)]

\* sorted(cache_data.items(), key=timestamp, reverse=True): stable, descending
RECURSIVE InsertDesc(_, _)
InsertDesc(sorted, it) ==
    IF sorted = <<>> THEN <<it>>
    ELSE IF StrLess(Head(sorted)[2].timestamp, it[2].timestamp)
         THEN <<it>> \o sorted
         ELSE <<Head(sorted)>> \o InsertDesc(Tail(sorted), it)

RECURSIVE SortedDesc(_)
SortedDesc(items) ==
    IF items = <<>> THEN <<>>
    ELSE InsertDesc(SortedDesc(SubSeq(items, 1, Len(items) - 1)), items[Len(items)])

\* the sort left out: the first MAX_CACHE_SIZE items in insertion order are kept
_evict_old_entries_Unsorted(cache_data) == SubSeq(cache_data, 1, MAX_CACHE_SIZE)

_evict_old_entries(cache_data) ==
    SubSeq(SortedDesc(cache_data), 1, MAX_CACHE_SIZE)

\* the file tier left out of the lookup
get_cached_MemoryOnly(mem, cache_file, cache_key, t, enabled) ==
    IF enabled /\ MemHas(mem, cache_key) /\ _is_cache_valid(mem[cache_key], t)
    THEN [ret |-> mem[cache_key].content, mem |-> mem, file |-> cache_file]
    ELSE [ret |-> None, mem |-> mem, file |-> cache_file]

\* get_cached_scenario / get_cached_situation on the file of the content class:
\* the value returned, and the memory cache and the file afterwards
get_cached(mem, cache_file, cache_key, t, enabled) ==
    IF ~enabled
    THEN [ret |-> None, mem |-> mem, file |-> cache_file]
    ELSE IF MemHas(mem, cache_key) /\ _is_cache_valid(mem[cache_key], t)
    THEN [ret |-> mem[cache_key].content, mem |-> mem, file |-> cache_file]
    ELSE LET cache_data == _load_cache_file(cache_file) IN
         IF DictHas(cache_data, cache_key)
         THEN LET cached_data == DictGet(cache_data, cache_key) IN
              IF _is_cache_valid(cached_data, t)
              THEN [ret |-> cached_data.content,
                    mem |-> MemSet(mem, cache_key, cached_data),
                    file |-> cache_file]
              ELSE [ret |-> None,
                    mem |-> mem,
                    file |-> _save_cache_file(DictDel(cache_data, cache_key))]
         ELSE [ret |-> None, mem |-> mem, file |-> cache_file]

\* the size check left out
save_cache_NoEviction(mem, cache_file, cache_key, content, t, enabled) ==
    IF ~enabled
    THEN [mem |-> mem, file |-> cache_file]
    ELSE LET cached_data == CachedData(content, t)
             cache_data == DictSet(_load_cache_file(cache_file), cache_key, cached_data)
         IN  [mem |-> MemSet(mem, cache_key, cached_data),
              file |-> _save_cache_file(cache_data)]

\* the write to the memory tier left out
save_cache_FileOnly(mem, cache_file, cache_key, content, t, enabled) ==
    IF ~enabled
    THEN [mem |-> mem, file |-> cache_file]
    ELSE LET cached_data == CachedData(content, t)
             cache_data == DictSet(_load_cache_file(cache_file), cache_key, cached_data)
             kept == IF Len(cache_data) > MAX_CACHE_SIZE
                     THEN SubSeq(SortedDesc(cache_data), 1, MAX_CACHE_SIZE)
                     ELSE cache_data
         IN  [mem |-> mem, file |-> _save_cache_file(kept)]

\* save_scenario_cache / save_situation_cache on the file of the content class
save_cache(mem, cache_file, cache_key, content, t, enabled) ==
    IF ~enabled
    THEN [mem |-> mem, file |-> cache_file]
    ELSE LET cached_data == CachedData(content, t)
             cache_data == DictSet(_load_cache_file(cache_file), cache_key, cached_data)
             kept == IF Len(cache_data) > MAX_CACHE_SIZE
                     THEN _evict_old_entries(cache_data)
                     ELSE cache_data
         IN  [mem |-> MemSet(mem, cache_key, cached_data),
              file |-> _save_cache_file(kept)]

\* the memory part of clear_expired_cache
clear_expired_memory(mem, t) ==
    MemRestrict(mem, {k \in DOMAIN mem : _is_cache_valid(mem[k], t)})

\* the file part of clear_expired_cache
clear_expired_file(cache_file, t) ==
    IF ~cache_file.exists THEN cache_file
    ELSE LET cache_data == _load_cache_file(cache_file)
             valid == SelectSeq(cache_data, LAMBDA it : _is_cache_valid(it[2], t))
         IN  IF Len(valid) < Len(cache_data) THEN _save_cache_file(valid) ELSE cache_file


get_cached_scenario(mem, cache_file, event_name, scene_number, t, enabled) ==
    get_cached(mem, cache_file, ScenarioKey(event_name, scene_number), t, enabled)

get_cached_situation(mem, cache_file, event_name, situation_id, t, enabled) ==
    get_cached(mem, cache_file, SituationKey(event_name, situation_id), t, enabled)

save_scenario_cache(mem, cache_file, event_name, scene_number, content, t, enabled) ==
    save_cache(mem, cache_file, ScenarioKey(event_name, scene_number), content, t, enabled)

save_situation_cache(mem, cache_file, event_name, situation_id, content, t, enabled) ==
    save_cache(mem, cache_file, SituationKey(event_name, situation_id), content, t, enabled)

---------------------------------------------------------------------------
(* Artifacts, templates and the LLM Gateway *)

Labels == <<"appropriate", "acceptable", "inappropriate">>

\* JSON objects the Gateway can return for a scenario variation
ScenarioBodies ==
    {[situation_text |-> "v1", choices |-> Labels],
     [situation_text |-> "v2", choices |-> <<"appropriate", "appropriate", "great">>]}

\* contents handed to the CacheManager when it is used directly: a scenario
\* artifact, a parent-situation artifact
ScenarioContents ==
    {[situation_text |-> "v2", choices |-> Labels, image |-> "a.png"]}
SituationContents ==
    {[child_action |-> "p2", parent_actions |-> Labels, event |-> "toilet"]}

\* contents saved by an earlier process
EarlierScenario == [situation_text |-> "v1", choices |-> Labels, image |-> "a.png"]
EarlierSituation == [child_action |-> "p1", parent_actions |-> Labels, event |-> "toilet"]

\* scenes present in data/events/<event>.json
TemplateScenes == {0, 1}

\* scene numbers asked for: the last one is in no event file
SceneArgs == {0, 1, 2}

BaseTemplate(event_name, scene_number) ==
    [text |-> "T_" \o ScenarioKey(event_name, scene_number),
     image |-> ScenarioKey(event_name, scene_number) \o ".png",
     choices |-> Labels]

\* only the first scene of an event file is found
_load_base_template_FirstScene(event_name, scene_number) ==
    IF event_name \notin KnownEvents THEN None
    ELSE IF scene_number # 0 THEN None
    ELSE BaseTemplate(event_name, scene_number)

_load_base_template(event_name, scene_number) ==
    IF event_name \notin KnownEvents THEN None
    ELSE IF scene_number \notin TemplateScenes THEN None
    ELSE BaseTemplate(event_name, scene_number)

\* what one chat.completions.create call does: it raises, or returns a message
\* whose content is not JSON, the empty JSON object, or a JSON object
GenResponses ==
    {[kind |-> "raise"], [kind |-> "malformed"], [kind |-> "empty_object"]}
    \cup {[kind |-> "json", body |-> b] : b \in ScenarioBodies}

\* values json.loads produces: each carries its Python type
JBool(b) == [type |-> "bool", val |-> b]
JInt(n) == [type |-> "int", val |-> n]
JStr(str) == [type |-> "str", val |-> str]
JList(items) == [type |-> "list", val |-> items]
JObject(fields) == [type |-> "dict", val |-> fields]

\* a key the object does not have
Absent == [type |-> "absent", val |-> <<>>]

\* the dict with the four keys of a verdict, those given as Absent left out
VerdictObject(is_valid, score, issues, suggestions) ==
    LET all == [is_valid |-> is_valid, score |-> score,
                issues |-> issues, suggestions |-> suggestions]
    IN  [k \in {key \in DOMAIN all : all[key] # Absent} |-> all[k]]

\* a verdict of the documented shape
Verdict(is_valid, score) == VerdictObject(JBool(is_valid), JInt(score), JList(<<>>), JList(<<>>))

\* verdict objects the Gateway returns to the Scenario Generator: of the
\* documented shape, with a field absent, with a field of another type
Scores == {79, 80}
Verdicts ==
    {Verdict(TRUE, sc) : sc \in Scores}
    \cup {Verdict(FALSE, AI_QUALITY_THRESHOLD),
          VerdictObject(Absent, JInt(80), JList(<<>>), JList(<<>>)),
          VerdictObject(JBool(TRUE), Absent, JList(<<>>), JList(<<>>)),
          VerdictObject(JStr("false"), JInt(80), JList(<<>>), JList(<<>>)),
          VerdictObject(JBool(TRUE), JStr("90"), JList(<<>>), JList(<<>>))}

\* a response of the validation call: the call raises, the content is not
\* JSON, or the content is a JSON value
ValResponses ==
    {[kind |-> "raise"], [kind |-> "malformed"]}
    \cup {[kind |-> "json", body |-> JObject(b)] : b \in Verdicts}

\* the JSON values the validation call is answered with when the validator
\* is exercised on its own
ValidatorResponses ==
    {[kind |-> "raise"], [kind |-> "malformed"]}
    \cup {[kind |-> "json", body |-> JObject(VerdictObject(v, sc, is, sg))] :
            v \in {Absent, JBool(TRUE), JBool(FALSE), JStr("false"), JInt(1)},
            sc \in {Absent, JInt(79), JInt(80), JInt(150), JInt(-1), JStr("90")},
            is \in {Absent, JList(<<>>), JList(<<"too long">>), JStr("none")},
            sg \in {Absent, JList(<<>>)}}
    \cup {[kind |-> "json", body |-> b] :
            b \in {JList(<<>>), JInt(85), JStr("ok"), [type |-> "NoneType", val |-> <<>>]}}

\* a failed call answered with a stock artifact instead of None
generate_scenario_variation_StockOnError(resp) ==
    IF resp.kind = "json" THEN resp.body
    ELSE [situation_text |-> "v1", choices |-> Labels]

\* AgentCoordinator.generate_scenario_variation: the parsed object, or None
generate_scenario_variation(resp) ==
    IF resp.kind \in {"raise", "malformed"} THEN None
    ELSE IF resp.kind = "empty_object" THEN [empty |-> TRUE]
    ELSE resp.body

\* a failed generation answered with the template
_generate_with_ai_Template(base_template, resp) ==
    LET generated == generate_scenario_variation(resp) IN
    IF generated = None \/ generated = [empty |-> TRUE] THEN base_template
    ELSE [situation_text |-> generated.situation_text,
          choices |-> generated.choices,
          image |-> base_template.image]

\* ScenarioGenerator._generate_with_ai: the image is inherited from the template
_generate_with_ai(base_template, resp) ==
    LET generated == generate_scenario_variation(resp) IN
    IF generated = None \/ generated = [empty |-> TRUE] THEN None
    ELSE [situation_text |-> generated.situation_text,
          choices |-> generated.choices,
          image |-> base_template.image]

\* a default verdict at the threshold of the scenario gate
DefaultVerdict_Passing == Verdict(TRUE, AI_QUALITY_THRESHOLD)

\* AgentCoordinator.validate_content_quality, lines 246-251: the verdict
\* returned by the except clause
DefaultVerdict == Verdict(TRUE, DEFAULT_VERDICT_SCORE)

\* the except clause answering None
validate_content_quality_NoDefault(resp) ==
    IF resp.kind \in {"raise", "malformed"} THEN None
    ELSE IF resp.body.type # "dict" THEN None
    ELSE resp.body.val

\* AgentCoordinator.validate_content_quality: the call and json.loads are
\* inside the try, and so is validation_result.get(...) of the log line, which
\* raises AttributeError on a JSON value that is not an object; a JSON object
\* is returned as parsed
validate_content_quality(resp) ==
    IF resp.kind \in {"raise", "malformed"} THEN DefaultVerdict
    ELSE IF resp.body.type # "dict" THEN DefaultVerdict
    ELSE resp.body.val

\* dict.get(key, default)
GetOr(obj, key, default) == IF key \in DOMAIN obj THEN obj[key] ELSE default

\* bool(value) of Python
Truthy(value) ==
    CASE value.type = "bool" -> value.val
      [] value.type = "int" -> value.val # 0
      [] value.type = "str" -> value.val # ""
      [] value.type = "list" -> value.val # <<>>
      [] OTHER -> FALSE

\* quality_result.get("is_valid", False) and quality_result.get("score", 0) >= threshold:
\* the comparison is evaluated only when the first operand is truthy, and it
\* raises TypeError unless the score is a number (bool is a subclass of int:
\* True is 1, False is 0)
GateRaises(quality_result) ==
    LET score == GetOr(quality_result, "score", JInt(0)) IN
    /\ Truthy(GetOr(quality_result, "is_valid", JBool(FALSE)))
    /\ score.type \notin {"int", "bool"}
GateAccepts(quality_result, threshold) ==
    LET score == GetOr(quality_result, "score", JInt(0)) IN
    /\ Truthy(GetOr(quality_result, "is_valid", JBool(FALSE)))
    /\ score.type \in {"int", "bool"}
    /\ (IF score.type = "int" THEN score.val ELSE IF score.val THEN 1 ELSE 0) >= threshold

\* line 87: is_valid and score >= Settings.AI_QUALITY_THRESHOLD
QualityAccepted(quality_result) == GateAccepts(quality_result, AI_QUALITY_THRESHOLD)

---------------------------------------------------------------------------
(* ScenarioGenerator.get_scene_with_variation *)

\* The value returned, the cache tiers afterwards, the calls made in order,
\* the verdict obtained (None when the validator was not called) and whether
\* save_scenario_cache was called.
get_scene_with_variation(mem, cache_file, event_name, scene_number, use_ai_generation, force_new, genResp, valResp, t, enabled) ==
    LET lookup == IF force_new
                  THEN [ret |-> None, mem |-> mem, file |-> cache_file]
                  ELSE get_cached_scenario(mem, cache_file, event_name,
                                           scene_number, t, enabled)
        tr1 == IF force_new THEN <<>> ELSE <<"get_cached_scenario">>
        base_template == _load_base_template(event_name, scene_number)
        tr2 == Append(tr1, "_load_base_template")
        out(ret, m, f, tr, verdict, saved) ==
            [ret |-> ret, mem |-> m, file |-> f, trace |-> tr,
             verdict |-> verdict, saved |-> saved]
    IN
    IF lookup.ret # None
    THEN out(lookup.ret, lookup.mem, lookup.file, tr1, None, FALSE)
    ELSE IF base_template = None
    THEN out(None, lookup.mem, lookup.file, tr2, None, FALSE)
    ELSE IF ~use_ai_generation
    THEN out(base_template, lookup.mem, lookup.file, tr2, None, FALSE)
    ELSE LET generated_scene == _generate_with_ai(base_template, genResp)
             tr3 == Append(tr2, "generate_scenario_variation")
         IN
         IF generated_scene = None
         THEN out(base_template, lookup.mem, lookup.file, tr3, None, FALSE)
         ELSE LET quality_result == validate_content_quality(valResp)
                  tr4 == Append(tr3, "validate_content_quality")
              IN
              IF GateRaises(quality_result)
              THEN out(_load_base_template(event_name, scene_number), lookup.mem,
                       lookup.file, Append(tr4, "_load_base_template"),
                       quality_result, FALSE)
              ELSE IF QualityAccepted(quality_result)
              THEN LET w == save_scenario_cache(lookup.mem, lookup.file, event_name,
                                                scene_number, generated_scene, t, enabled)
                   IN  out(generated_scene, w.mem, w.file,
                           Append(tr4, "save_scenario_cache"), quality_result, TRUE)
              ELSE out(base_template, lookup.mem, lookup.file, tr4,
                       quality_result, FALSE)

\* the gate of the specification, stated on the verdict alone
PassesGate(verdict) ==
    /\ verdict # None
    /\ "is_valid" \in DOMAIN verdict
    /\ "score" \in DOMAIN verdict
    /\ verdict.is_valid = JBool(TRUE)
    /\ verdict.score.type = "int"
    /\ verdict.score.val >= AI_QUALITY_THRESHOLD

---------------------------------------------------------------------------
(* Actions *)

Init ==
    /\ now = 0
    /\ ENABLE_SCENARIO_CACHE \in BOOLEAN
    /\ memory_cache = EmptyMem
    /\ scenario_cache_file = NoFile
    /\ situation_cache_file = NoFile
    /\ validated = {}
    /\ saves = 0
    /\ ticks = 0
    /\ lastOp = Idle
    /\ stream = NoStream
    /\ writers = NoWriters

\* A CacheManager created over the files an earlier process left behind: two
\* entries in each file, saved one after the other at hours 0, 1, 2 and 3.
EarlierScenarioFile ==
    _save_cache_file(<< <<ScenarioKey("toilet", 0), CachedData(EarlierScenario, 0)>>,
                        <<ScenarioKey("toilet", 1), CachedData(EarlierScenario, 1)>> >>)

EarlierSituationFile ==
    _save_cache_file(<< <<SituationKey("toilet", "0"), CachedData(EarlierSituation, 2)>>,
                        <<SituationKey("toilet", "s1"), CachedData(EarlierSituation, 3)>> >>)

InitCache ==
    /\ ENABLE_SCENARIO_CACHE \in BOOLEAN
    /\ memory_cache = EmptyMem
    /\ \/ /\ now = 0
          /\ scenario_cache_file = NoFile
          /\ situation_cache_file = NoFile
       \/ /\ ENABLE_SCENARIO_CACHE
          /\ now = 4
          /\ scenario_cache_file = EarlierScenarioFile
          /\ situation_cache_file = EarlierSituationFile
    /\ validated = {}
    /\ saves = 0
    /\ ticks = 0
    /\ lastOp = Idle
    /\ stream = NoStream
    /\ writers = NoWriters

\* the caller takes the value returned; the next call can be made
Return ==
    /\ lastOp # Idle
    /\ lastOp' = Idle
    /\ UNCHANGED <<stream, writers, now, ENABLE_SCENARIO_CACHE, memory_cache, scenario_cache_file,
                   situation_cache_file, validated, saves, ticks>>

\* time passes between two calls
Tick ==
    /\ lastOp = Idle
    /\ ticks < MaxTicks
    /\ now' = now + TickHours
    /\ ticks' = ticks + 1
    /\ UNCHANGED <<stream, writers, lastOp, ENABLE_SCENARIO_CACHE, memory_cache, scenario_cache_file,
                   situation_cache_file, validated, saves>>

\* CacheManager(): a new instance starts with an empty memory cache
NewCacheManager ==
    /\ lastOp = Idle
    /\ memory_cache' = EmptyMem
    /\ UNCHANGED <<stream, writers, lastOp, now, ENABLE_SCENARIO_CACHE, scenario_cache_file,
                   situation_cache_file, validated, saves, ticks>>

GetCachedScenario ==
    /\ lastOp = Idle
    /\ \E event_name \in KnownEvents, scene_number \in SceneNumbers :
        LET r == get_cached_scenario(memory_cache, scenario_cache_file, event_name,
                                     scene_number, now, ENABLE_SCENARIO_CACHE)
        IN  /\ memory_cache' = r.mem
            /\ scenario_cache_file' = r.file
            /\ lastOp' = [name |-> "get_cached_scenario",
                          key |-> ScenarioKey(event_name, scene_number),
                          corrupt |-> IsCorrupt(scenario_cache_file),
                          result |-> r.ret]
            /\ UNCHANGED <<stream, writers, now, ENABLE_SCENARIO_CACHE, situation_cache_file,
                           validated, saves, ticks>>

SaveScenarioCache ==
    /\ lastOp = Idle
    /\ \E event_name \in KnownEvents, scene_number \in SceneNumbers,
         content \in ScenarioContents :
        LET w == save_scenario_cache(memory_cache, scenario_cache_file, event_name,
                                     scene_number, content, now, ENABLE_SCENARIO_CACHE)
        IN  /\ saves < MaxSaves
            /\ memory_cache' = w.mem
            /\ scenario_cache_file' = w.file
            /\ now' = now + 1
            /\ saves' = saves + 1
            /\ lastOp' = [name |-> "save_scenario_cache",
                          key |-> ScenarioKey(event_name, scene_number),
                          corrupt |-> IsCorrupt(scenario_cache_file),
                          content |-> content]
            /\ UNCHANGED <<stream, writers, ENABLE_SCENARIO_CACHE, situation_cache_file,
                           validated, ticks>>

GetCachedSituation ==
    /\ lastOp = Idle
    /\ \E event_name \in KnownEvents, situation_id \in SituationIds :
        LET r == get_cached_situation(memory_cache, situation_cache_file, event_name,
                                      situation_id, now, ENABLE_SCENARIO_CACHE)
        IN  /\ memory_cache' = r.mem
            /\ situation_cache_file' = r.file
            /\ lastOp' = [name |-> "get_cached_situation",
                          key |-> SituationKey(event_name, situation_id),
                          result |-> r.ret]
            /\ UNCHANGED <<stream, writers, now, ENABLE_SCENARIO_CACHE, scenario_cache_file,
                           validated, saves, ticks>>

SaveSituationCache ==
    /\ lastOp = Idle
    /\ \E event_name \in KnownEvents, situation_id \in SituationIds,
         content \in SituationContents :
        LET w == save_situation_cache(memory_cache, situation_cache_file, event_name,
                                      situation_id, content, now, ENABLE_SCENARIO_CACHE)
        IN  /\ saves < MaxSaves
            /\ memory_cache' = w.mem
            /\ situation_cache_file' = w.file
            /\ now' = now + 1
            /\ saves' = saves + 1
            /\ lastOp' = [name |-> "save_situation_cache",
                          key |-> SituationKey(event_name, situation_id),
                          content |-> content]
            /\ UNCHANGED <<stream, writers, ENABLE_SCENARIO_CACHE, scenario_cache_file,
                           validated, ticks>>

\* clear_all_cache: the memory cache is emptied and both files are unlinked
ClearAllCache ==
    /\ lastOp = Idle
    /\ memory_cache' = EmptyMem
    /\ scenario_cache_file' = NoFile
    /\ situation_cache_file' = NoFile
    /\ lastOp' = [name |-> "clear_all_cache"]
    /\ UNCHANGED <<stream, writers, now, ENABLE_SCENARIO_CACHE, validated, saves, ticks>>

ClearExpiredCache ==
    /\ lastOp = Idle
    /\ memory_cache' = clear_expired_memory(memory_cache, now)
    /\ scenario_cache_file' = clear_expired_file(scenario_cache_file, now)
    /\ situation_cache_file' = clear_expired_file(situation_cache_file, now)
    /\ lastOp' = [name |-> "clear_expired_cache"]
    /\ UNCHANGED <<stream, writers, now, ENABLE_SCENARIO_CACHE, validated, saves, ticks>>

\* The Gateway's answers are drawn only for the calls that are made.
GetSceneWithVariation ==
    /\ lastOp = Idle
    /\ \E event_name \in EventNames, scene_number \in SceneArgs,
       use_ai_generation \in BOOLEAN, force_new \in BOOLEAN :
        LET probe == get_scene_with_variation(memory_cache, scenario_cache_file,
                         event_name, scene_number, use_ai_generation, force_new,
                         [kind |-> "raise"], [kind |-> "raise"], now,
                         ENABLE_SCENARIO_CACHE)
            generates == "generate_scenario_variation" \in Range(probe.trace)
        IN
        \E genResp \in IF generates THEN GenResponses ELSE {[kind |-> "raise"]} :
        \E valResp \in IF generates /\ generate_scenario_variation(genResp) # None
                       THEN ValResponses ELSE {[kind |-> "raise"]} :
        LET r == get_scene_with_variation(memory_cache, scenario_cache_file,
                     event_name, scene_number, use_ai_generation, force_new,
                     genResp, valResp, now, ENABLE_SCENARIO_CACHE)
            key == ScenarioKey(event_name, scene_number)
        IN  /\ r.saved => saves < MaxAccepted
            /\ memory_cache' = r.mem
            /\ scenario_cache_file' = r.file
            /\ now' = IF r.saved THEN now + 1 ELSE now
            /\ saves' = IF r.saved THEN saves + 1 ELSE saves
            /\ validated' = IF PassesGate(r.verdict)
                            THEN validated \cup {<<key, r.ret>>}
                            ELSE validated
            /\ lastOp' = [name |-> "get_scene_with_variation",
                          event_name |-> event_name,
                          scene_number |-> scene_number,
                          use_ai_generation |-> use_ai_generation,
                          force_new |-> force_new,
                          trace |-> r.trace,
                          gen |-> IF generates THEN genResp.kind ELSE "not_called",
                          verdict |-> r.verdict,
                          result |-> r.ret]
            /\ UNCHANGED <<stream, writers, ENABLE_SCENARIO_CACHE, situation_cache_file, ticks>>

\* the CacheManager used directly
NextCache ==
    \/ Return
    \/ Tick
    \/ NewCacheManager
    \/ GetCachedScenario
    \/ SaveScenarioCache
    \/ GetCachedSituation
    \/ SaveSituationCache
    \/ ClearAllCache
    \/ ClearExpiredCache

SpecCache == InitCache /\ [][NextCache]_vars

\* the ScenarioGenerator and the cache it owns
Next ==
    \/ Return
    \/ Tick
    \/ NewCacheManager
    \/ GetSceneWithVariation
    \/ ClearAllCache
    \/ ClearExpiredCache

Spec == Init /\ [][Next]_vars

---------------------------------------------------------------------------
(* AgentCoordinator.validate_content_quality called on its own *)

\* a service that uses no cache
InitService == Init /\ ~ENABLE_SCENARIO_CACHE

\* one call; the answer of the Gateway is the input
ValidateContentQuality ==
    /\ lastOp = Idle
    /\ \E resp \in ValidatorResponses :
        lastOp' = [name |-> "validate_content_quality",
                   resp |-> resp,
                   result |-> validate_content_quality(resp)]
    /\ UNCHANGED <<stream, writers, now, ENABLE_SCENARIO_CACHE, memory_cache,
                   scenario_cache_file, situation_cache_file, validated, saves, ticks>>

NextValidator ==
    \/ Return
    \/ ValidateContentQuality

SpecValidator == InitService /\ [][NextValidator]_vars

---------------------------------------------------------------------------
(* SpecializedAgentService: the four streaming generators *)

\* AGENTS in the order of the registry
AGENTS == <<"clinical_psychologist", "pediatrician", "special_education_teacher", "family_support_specialist">>

\* what next() on the Gateway's stream gives: a chunk (a list of choices, the
\* first with a delta, and possibly the usage counts), an exception, or the
\* end of the stream.  With stream_options include_usage the Gateway sends a
\* chunk whose list of choices is empty and that carries the usage counts.
UsageChunk == [choices |-> <<>>, usage |-> TRUE]
StreamItems ==
    {[kind |-> "chunk", chunk |-> c] :
        c \in {[choices |-> <<[content |-> "text"]>>, usage |-> FALSE],
               [choices |-> <<[content |-> ""]>>, usage |-> FALSE],
               UsageChunk}}
    \cup {[kind |-> "raise"], [kind |-> "end"]}

\* what the generators yield: the three text generators yield str, the
\* sequential generator yields dicts with an agent_id and a chunk
Event(agent_id, chunk) == [agent_id |-> agent_id, chunk |-> chunk]
Diagnostic(op) == IF op = "sequential" THEN Event("error", "failed") ELSE "[DEBUG] error"

\* the surroundings of one invocation: Settings.DEBUG_MODE or
\* Settings.DEBUG_LOG_ALWAYS, whether the collector holds a session, and the
\* steps of the finalization that raise.  tiktoken raises either when the
\* encoding is loaded (get_token_counter) or when a text is encoded.
Environments ==
    [debug_mode : BOOLEAN, current_session : BOOLEAN,
     tokenizer : {"ok", "encode_raises", "raise"},
     add_api_call : {"ok", "raise"}, evaluation : {"ok", "raise"}]

\* the frame of a generator that has been created and not yet pulled;
\* reported tells whether an element of the Gateway's stream carried the
\* usage counts, usage_info whether the generator has read them
Frame(op, agent_id, env, pc, index) ==
    [op |-> op, agent_id |-> agent_id, env |-> env,
     pc |-> pc, index |-> index, events |-> <<>>, calls |-> <<>>,
     individual_responses |-> <<>>, received |-> 0, collected_response |-> 0,
     established |-> FALSE, reported |-> FALSE, usage_info |-> FALSE,
     records |-> <<>>, caught |-> {},
     gateway_raised |-> FALSE, loop_raised |-> FALSE, failed |-> FALSE, raised |-> FALSE]

\* a call to the Gateway, with the number of events yielded before it
GatewayCall(kind, agent_id, st) == [kind |-> kind, agent_id |-> agent_id, at |-> Len(st.events)]

\* the exception leaves the generator
OnFailure_Propagate(st) ==
    [st EXCEPT !.pc = "done", !.failed = TRUE, !.raised = TRUE]

\* the outer except clause of each generator: one diagnostic chunk, then the
\* generator returns
OnFailure(st) ==
    [st EXCEPT !.events = Append(@, Diagnostic(st.op)), !.pc = "done", !.failed = TRUE]

\* len() of the two prompts and of one text delta
Lengths == [user_message |-> 41, system_prompt |-> 22, content |-> 4]

\* len(self.encoding.encode(text)) for a text of n characters
Encode(n) == (n + 2) \div 3

\* TokenCounter.count_tokens: the length in characters over 4 when encode raises
count_tokens(n, tokenizer) == IF tokenizer = "ok" THEN Encode(n) ELSE n \div 4

\* TokenCounter.estimate_streaming_tokens with a system prompt: two messages
\* of 3 tokens of overhead, and 3 for the request
estimate_streaming_tokens(prompt, response, system_prompt, tokenizer) ==
    [prompt_tokens |-> count_tokens(prompt, tokenizer)
                         + count_tokens(system_prompt, tokenizer) + 2 * 3 + 3,
     completion_tokens |-> count_tokens(response, tokenizer)]

\* the counts the Gateway reports in chunk.usage
ReportedUsage == [prompt_tokens |-> 30, completion_tokens |-> 5]

\* the estimate is taken although the Gateway reported its counts
TokenUsage_EstimateFirst(st) ==
    IF st.env.tokenizer = "raise"
    THEN [prompt_tokens |-> Lengths.user_message \div 4,
          completion_tokens |-> (st.collected_response * Lengths.content) \div 4]
    ELSE estimate_streaming_tokens(Lengths.user_message,
                                   st.collected_response * Lengths.content,
                                   Lengths.system_prompt, st.env.tokenizer)

\* the inner try of the finally clause: the counts of usage_info, else the
\* estimate of the token counter, and in the except clause the lengths over 4
TokenUsage(st) ==
    IF st.usage_info THEN ReportedUsage
    ELSE IF st.env.tokenizer = "raise"
    THEN [prompt_tokens |-> Lengths.user_message \div 4,
          completion_tokens |-> (st.collected_response * Lengths.content) \div 4]
    ELSE estimate_streaming_tokens(Lengths.user_message,
                                   st.collected_response * Lengths.content,
                                   Lengths.system_prompt, st.env.tokenizer)

\* self.debug_collector.add_api_call: the record is handed to the collector,
\* which keeps it when it holds a session; at is the number of events yielded
\* before
Recorded(st) ==
    LET noted == IF ~st.usage_info /\ st.env.tokenizer = "raise"
                 THEN [st EXCEPT !.caught = @ \cup {"tokenizer"}]
                 ELSE st
    IN  IF st.env.add_api_call = "raise"
        THEN [noted EXCEPT !.caught = @ \cup {"add_api_call"}]
        ELSE [noted EXCEPT !.records =
                  Append(@, [kind |-> "api_call", index |-> st.index,
                             tokens |-> TokenUsage(st),
                             reported |-> st.reported,
                             at |-> Len(st.events),
                             stored |-> st.env.current_session])]

\* the response is evaluated even when it is empty
Evaluated_Always(st) ==
    IF st.op # "single" \/ "add_api_call" \in st.caught
    THEN st
    ELSE IF st.env.evaluation = "raise"
    THEN [st EXCEPT !.caught = @ \cup {"evaluation"}]
    ELSE [st EXCEPT !.calls = Append(@, GatewayCall("validate", st.agent_id, st)),
                    !.records = Append(@, [kind |-> "evaluation", index |-> st.index,
                                           at |-> Len(st.events),
                                           stored |-> st.env.current_session])]

\* lines 679-720 of the single-expert generator: a non-empty response is
\* sent to the validator of a new AgentCoordinator and the verdict is handed
\* to the collector; the constructor may raise, the validator never does
Evaluated(st) ==
    IF st.op # "single" \/ "add_api_call" \in st.caught \/ st.collected_response = 0
    THEN st
    ELSE IF st.env.evaluation = "raise"
    THEN [st EXCEPT !.caught = @ \cup {"evaluation"}]
    ELSE [st EXCEPT !.calls = Append(@, GatewayCall("validate", st.agent_id, st)),
                    !.records = Append(@, [kind |-> "evaluation", index |-> st.index,
                                           at |-> Len(st.events),
                                           stored |-> st.env.current_session])]

\* an exception of the clause reaches the outer except clause
Finalized_Unguarded(st) ==
    LET after == Evaluated(Recorded(st))
    IN  IF after.caught \cap {"add_api_call", "evaluation"} # {}
        THEN [after EXCEPT !.events = Append(@, Diagnostic(st.op))]
        ELSE after

\* the finally clause after the chunk loop: every exception of its steps is
\* caught inside the clause
Finalized(st) == Evaluated(Recorded(st))

\* the synthesis stream is opened after the first persona
AfterPersona_Early(st) == [st EXCEPT !.pc = "open"]

\* the for loop over self.AGENTS.keys() of the comprehensive generator
AfterPersona(st) ==
    IF st.index < Len(AGENTS)
    THEN [st EXCEPT !.index = @ + 1]
    ELSE [st EXCEPT !.pc = "open"]

\* a persona without an answer ends the operation with the diagnostic chunk
KeepResponse_Abort(st, agent_id, response) ==
    IF response = "text"
    THEN AfterPersona([st EXCEPT !.individual_responses = Append(@, agent_id)])
    ELSE OnFailure(st)

\* "if response:" of the comprehensive generator: None and the empty text
\* are left out of individual_responses, and the loop goes on
KeepResponse(st, agent_id, response) ==
    AfterPersona(IF response = "text"
                 THEN [st EXCEPT !.individual_responses = Append(@, agent_id)]
                 ELSE st)

\* one iteration of "for chunk in stream", and what follows the loop: the
\* sequential generator yields the end marker and goes on with the next key
\* of self.AGENTS; it reads chunk.choices[0] without testing the list, and
\* it yields events where the others yield the content
OnItem(st, item) ==
    IF item.kind = "raise"
    THEN OnFailure([Finalized(st) EXCEPT !.gateway_raised = TRUE])
    ELSE IF item.kind = "end"
    THEN IF st.op = "sequential"
         THEN [Finalized(st) EXCEPT
                   !.events = Append(@, Event(AGENTS[st.index], "__END__")),
                   !.index = IF st.index < Len(AGENTS) THEN @ + 1 ELSE @,
                   !.pc = IF st.index < Len(AGENTS) THEN "start" ELSE "done"]
         ELSE [Finalized(st) EXCEPT !.pc = "done"]
    ELSE IF item.chunk.choices = <<>> /\ st.op = "sequential"
    THEN OnFailure(Finalized([st EXCEPT !.loop_raised = TRUE,
                                        !.reported = @ \/ item.chunk.usage]))
    ELSE IF item.chunk.choices # <<>> /\ item.chunk.choices[1].content # ""
    THEN [st EXCEPT !.events = Append(@, IF st.op = "sequential"
                                         THEN Event(AGENTS[st.index], item.chunk.choices[1].content)
                                         ELSE item.chunk.choices[1].content),
                    !.received = @ + 1,
                    !.collected_response = @ + 1,
                    !.reported = @ \/ item.chunk.usage,
                    !.usage_info = @ \/ item.chunk.usage]
    ELSE [st EXCEPT !.received = @ + 1,
                    !.reported = @ \/ item.chunk.usage,
                    !.usage_info = @ \/ item.chunk.usage]

GenerateSingleExpertResponseStream ==
    /\ stream = NoStream
    /\ \E agent_id \in Range(AGENTS) \cup {"nutritionist"}, env \in Environments :
        stream' = Frame("single", agent_id, env,
                        IF agent_id \in Range(AGENTS) THEN "open" ELSE "not_found", 0)
    /\ UNCHANGED <<writers, now, ENABLE_SCENARIO_CACHE, memory_cache, scenario_cache_file,
                   situation_cache_file, validated, saves, ticks, lastOp>>

GenerateQuickResponseStream ==
    /\ stream = NoStream
    /\ \E env \in Environments :
        stream' = Frame("quick", "none", env, "open", 0)
    /\ UNCHANGED <<writers, now, ENABLE_SCENARIO_CACHE, memory_cache, scenario_cache_file,
                   situation_cache_file, validated, saves, ticks, lastOp>>

GenerateComprehensiveResponseStream ==
    /\ stream = NoStream
    /\ \E env \in Environments :
        stream' = Frame("comprehensive", "none", env, "persona", 1)
    /\ UNCHANGED <<writers, now, ENABLE_SCENARIO_CACHE, memory_cache, scenario_cache_file,
                   situation_cache_file, validated, saves, ticks, lastOp>>

GenerateSequentialExpertResponsesStream ==
    /\ stream = NoStream
    /\ \E env \in Environments :
        stream' = Frame("sequential", "none", env, "start", 1)
    /\ UNCHANGED <<writers, now, ENABLE_SCENARIO_CACHE, memory_cache, scenario_cache_file,
                   situation_cache_file, validated, saves, ticks, lastOp>>

\* single expert, unknown agent_id: one message, then return
YieldNotFound ==
    /\ stream # NoStream
    /\ stream.pc = "not_found"
    /\ stream' = [stream EXCEPT !.events = Append(@, "agent not found"), !.pc = "done"]
    /\ UNCHANGED <<writers, now, ENABLE_SCENARIO_CACHE, memory_cache, scenario_cache_file,
                   situation_cache_file, validated, saves, ticks, lastOp>>

\* comprehensive: generate_expert_response for the next persona, a blocking
\* call that answers a text, an empty text, or None when anything raised;
\* with debugging on, a text is followed by a call of the validator
GenerateExpertResponse ==
    /\ stream # NoStream
    /\ stream.pc = "persona"
    /\ \E response \in {"text", "", "None"} :
        LET agent_id == AGENTS[stream.index]
            called == [stream EXCEPT !.calls = Append(@, GatewayCall("blocking", agent_id, stream))]
            checked == IF response # "None" /\ stream.env.debug_mode
                       THEN [called EXCEPT !.calls = Append(@, GatewayCall("validate", agent_id, stream))]
                       ELSE called
        IN  stream' = KeepResponse(checked, agent_id, response)
    /\ UNCHANGED <<writers, now, ENABLE_SCENARIO_CACHE, memory_cache, scenario_cache_file,
                   situation_cache_file, validated, saves, ticks, lastOp>>

\* sequential: the start marker of the next persona
YieldStart ==
    /\ stream # NoStream
    /\ stream.pc = "start"
    /\ stream' = [stream EXCEPT !.events = Append(@, Event(AGENTS[stream.index], "__START__")),
                                !.pc = "open"]
    /\ UNCHANGED <<writers, now, ENABLE_SCENARIO_CACHE, memory_cache, scenario_cache_file,
                   situation_cache_file, validated, saves, ticks, lastOp>>

\* client.chat.completions.create(stream=True): a stream, or an exception
OpenStream ==
    /\ stream # NoStream
    /\ stream.pc = "open"
    /\ \E outcome \in {"stream", "raise"} :
        LET owner == CASE stream.op = "single" -> stream.agent_id
                       [] stream.op = "quick" -> "quick"
                       [] stream.op = "comprehensive" -> "synthesis"
                       [] OTHER -> AGENTS[stream.index]
            called == [stream EXCEPT !.calls = Append(@, GatewayCall("stream", owner, stream)),
                                     !.received = 0,
                                     !.collected_response = 0,
                                     !.established = FALSE,
                                     !.reported = FALSE,
                                     !.usage_info = FALSE]
        IN  stream' = IF outcome = "raise"
                      THEN OnFailure([called EXCEPT !.gateway_raised = TRUE])
                      ELSE [called EXCEPT !.pc = "consume", !.established = TRUE]
    /\ UNCHANGED <<writers, now, ENABLE_SCENARIO_CACHE, memory_cache, scenario_cache_file,
                   situation_cache_file, validated, saves, ticks, lastOp>>

\* the caller pulls; the generator takes the next item of the Gateway's stream
NextChunk ==
    /\ stream # NoStream
    /\ stream.pc = "consume"
    /\ \E item \in StreamItems :
        /\ item.kind = "chunk" => stream.received < MaxChunks
        /\ stream' = OnItem(stream, item)
    /\ UNCHANGED <<writers, now, ENABLE_SCENARIO_CACHE, memory_cache, scenario_cache_file,
                   situation_cache_file, validated, saves, ticks, lastOp>>

\* the caller drops the generator that has returned
CloseStream ==
    /\ stream # NoStream
    /\ stream.pc = "done"
    /\ stream' = NoStream
    /\ UNCHANGED <<writers, now, ENABLE_SCENARIO_CACHE, memory_cache, scenario_cache_file,
                   situation_cache_file, validated, saves, ticks, lastOp>>

NextStream ==
    \/ GenerateSingleExpertResponseStream
    \/ GenerateQuickResponseStream
    \/ GenerateComprehensiveResponseStream
    \/ GenerateSequentialExpertResponsesStream
    \/ YieldNotFound
    \/ GenerateExpertResponse
    \/ YieldStart
    \/ OpenStream
    \/ NextChunk
    \/ CloseStream

SpecStream == InitService /\ [][NextStream]_vars

---------------------------------------------------------------------------
(* ScenarioGenerator.generate_random_parent_situation *)

\* JSON objects the Gateway can return for a parent situation
\* what the generation call does: it raises, or returns a JSON list, the
\* empty JSON object, or a JSON object
ParentGenResponses ==
    {[kind |-> "raise"], [kind |-> "list"], [kind |-> "empty_object"]}
    \cup {[kind |-> "json", body |-> b] :
            b \in {[child_action |-> "p1", parent_actions |-> Labels],
                   [child_action |-> "p2",
                    parent_actions |-> <<"appropriate", "appropriate", "great">>]}}

\* the validation call raises, or answers a verdict around the threshold of
\* line 272
ParentValResponses ==
    {[kind |-> "raise"]}
    \cup {[kind |-> "json", body |-> JObject(b)] :
            b \in {Verdict(TRUE, PARENT_QUALITY_THRESHOLD),
                   Verdict(TRUE, PARENT_QUALITY_THRESHOLD - 1),
                   Verdict(FALSE, PARENT_QUALITY_THRESHOLD),
                   VerdictObject(JStr("false"), JInt(PARENT_QUALITY_THRESHOLD),
                                 JList(<<>>), JList(<<>>)),
                   VerdictObject(JBool(TRUE), JStr("90"), JList(<<>>), JList(<<>>))}}

\* the answers of the Gateway to one attempt; the validator is asked only
\* about a generated situation
AttemptResponses ==
    {[gen |-> g, val |-> [kind |-> "raise"]] : g \in {[kind |-> "raise"], [kind |-> "list"]}}
    \cup {[gen |-> g, val |-> v] :
            g \in ParentGenResponses \ {[kind |-> "raise"], [kind |-> "list"]},
            v \in ParentValResponses}

\* parent_guide_data.json: the pre-authored situations, each with its event
GuideSituations ==
    {[event |-> "toilet", child_action |-> "g1", parent_actions |-> Labels],
     [event |-> "toilet", child_action |-> "g2", parent_actions |-> Labels],
     [event |-> "picnic", child_action |-> "g3", parent_actions |-> Labels]}

\* AgentCoordinator.generate_parent_situation: the parsed object with the
\* event added; None when the call raises or the JSON value takes no item
generate_parent_situation(event_name, resp) ==
    IF resp.kind \in {"raise", "list"} THEN None
    ELSE IF resp.kind = "empty_object" THEN [event |-> event_name]
    ELSE [child_action |-> resp.body.child_action,
          parent_actions |-> resp.body.parent_actions,
          event |-> event_name]

\* ScenarioGenerator._get_child_behaviors_from_event: the choice texts of the
\* event's scenes; empty for an event without a scene file
_get_child_behaviors_from_event(event_name) ==
    IF event_name \in KnownEvents THEN <<"behavior">> ELSE <<>>

\* ScenarioGenerator._get_fallback_parent_situation: what random.choice can
\* select, None when no situation of the guide has the event
_get_fallback_parent_situation(guide, event_name) ==
    LET event_situations == {s \in guide : s.event = event_name} IN
    IF event_situations = {} THEN {None} ELSE event_situations

RECURSIVE attempt_loop(_, _, _, _, _, _)
\* lines 248-287: for attempt in range(max_attempts) with the gate of line 272
\* (is_valid and score >= 75), then the fallback; the except clause of the
\* method answers the fallback too
attempt_loop(event_name, responses, attempt, max_attempts, verdicts, fallback) ==
    IF attempt > max_attempts
    THEN [ret |-> fallback, attempts |-> attempt - 1, verdicts |-> verdicts, path |-> "fallback"]
    ELSE LET generated == generate_parent_situation(event_name, responses[attempt].gen)
             quality_result == validate_content_quality(responses[attempt].val)
         IN
         IF generated = None
         THEN attempt_loop(event_name, responses, attempt + 1, max_attempts,
                           Append(verdicts, None), fallback)
         ELSE IF GateRaises(quality_result)
         THEN [ret |-> fallback, attempts |-> attempt,
               verdicts |-> Append(verdicts, quality_result), path |-> "except"]
         ELSE IF GateAccepts(quality_result, PARENT_QUALITY_THRESHOLD)
         THEN [ret |-> generated, attempts |-> attempt,
               verdicts |-> Append(verdicts, quality_result), path |-> "generated"]
         ELSE attempt_loop(event_name, responses, attempt + 1, max_attempts,
                           Append(verdicts, quality_result), fallback)

\* ScenarioGenerator.generate_random_parent_situation
generate_random_parent_situation(event_name, max_attempts, responses, fallback) ==
    IF _get_child_behaviors_from_event(event_name) = <<>>
    THEN [ret |-> None, attempts |-> 0, verdicts |-> <<>>, path |-> "no_behaviors"]
    ELSE attempt_loop(event_name, responses, 1, max_attempts, <<>>, fallback)

\* The Gateway's answers are drawn for max_attempts attempts; the guide file
\* is what the deployment holds.
GenerateRandomParentSituation ==
    /\ lastOp = Idle
    /\ \E event_name \in EventNames, max_attempts \in 0 .. MaxAttempts, guide \in {{}, GuideSituations, {s \in GuideSituations : s.event = "picnic"}} :
       \E responses \in [1 .. max_attempts -> AttemptResponses] :
       \E fallback \in _get_fallback_parent_situation(guide, event_name) :
        LET r == generate_random_parent_situation(event_name, max_attempts, responses, fallback)
        IN  lastOp' = [name |-> "generate_random_parent_situation",
                       event_name |-> event_name,
                       max_attempts |-> max_attempts,
                       guide |-> guide,
                       attempts |-> r.attempts,
                       verdicts |-> r.verdicts,
                       path |-> r.path,
                       result |-> r.ret]
    /\ UNCHANGED <<stream, writers, now, ENABLE_SCENARIO_CACHE, memory_cache,
                   scenario_cache_file, situation_cache_file, validated, saves, ticks>>

NextParent ==
    \/ Return
    \/ GenerateRandomParentSituation

SpecParent == InitService /\ [][NextParent]_vars

---------------------------------------------------------------------------
(* SpecializedAgentService: the registry and the lookup by display name *)

\* a str is the sequence of its characters; the names and icons of the
\* registry are pairwise distinct and hold no space
AgentName(agent_id) ==
    CASE agent_id = "clinical_psychologist" -> <<"a">>
      [] agent_id = "pediatrician" -> <<"b">>
      [] agent_id = "special_education_teacher" -> <<"a", "b">>
      [] agent_id = "family_support_specialist" -> <<"b", "a">>
AgentIcon(agent_id) ==
    CASE agent_id = "clinical_psychologist" -> <<"1">>
      [] agent_id = "pediatrician" -> <<"2">>
      [] agent_id = "special_education_teacher" -> <<"1", "2">>
      [] agent_id = "family_support_specialist" -> <<"2", "1">>

\* the display names a caller can pass
DisplayNames == UNION {[1 .. n -> {" ", "a", "b", "1", "2"}] : n \in 0 .. MaxDisplayLen}

\* display_name.split(" ", 1)[-1] if " " in display_name else display_name
NamePart(display_name) ==
    IF \E i \in 1 .. Len(display_name) : display_name[i] = " "
    THEN LET first == CHOOSE i \in 1 .. Len(display_name) :
                          /\ display_name[i] = " "
                          /\ \A j \in 1 .. i - 1 : display_name[j] # " "
         IN  SubSeq(display_name, first + 1, Len(display_name))
    ELSE display_name

\* the name is looked for at the end of the display name
get_agent_id_from_display_name_Suffix(display_name) ==
    LET matches == {i \in 1 .. Len(AGENTS) :
                       \E k \in 0 .. Len(display_name) :
                           SubSeq(display_name, k + 1, Len(display_name)) = AgentName(AGENTS[i])}
    IN  IF matches = {} THEN None
        ELSE AGENTS[CHOOSE i \in matches : \A j \in matches : i <= j]

\* SpecializedAgentService.get_agent_id_from_display_name: the first agent of
\* the registry whose name equals the name part
get_agent_id_from_display_name(display_name) ==
    LET matches == {i \in 1 .. Len(AGENTS) : AgentName(AGENTS[i]) = NamePart(display_name)}
    IN  IF matches = {} THEN None
        ELSE AGENTS[CHOOSE i \in matches : \A j \in matches : i <= j]

\* SpecializedAgentService.list_agents
list_agents ==
    [i \in 1 .. Len(AGENTS) |->
        [id |-> AGENTS[i], name |-> AgentName(AGENTS[i]), icon |-> AgentIcon(AGENTS[i])]]

ListAgents ==
    /\ lastOp = Idle
    /\ lastOp' = [name |-> "list_agents", result |-> list_agents]
    /\ UNCHANGED <<stream, writers, now, ENABLE_SCENARIO_CACHE, memory_cache,
                   scenario_cache_file, situation_cache_file, validated, saves, ticks>>

GetAgentIdFromDisplayName ==
    /\ lastOp = Idle
    /\ \E display_name \in DisplayNames :
        lastOp' = [name |-> "get_agent_id_from_display_name",
                   display_name |-> display_name,
                   result |-> get_agent_id_from_display_name(display_name)]
    /\ UNCHANGED <<stream, writers, now, ENABLE_SCENARIO_CACHE, memory_cache,
                   scenario_cache_file, situation_cache_file, validated, saves, ticks>>

NextLookup ==
    \/ Return
    \/ ListAgents
    \/ GetAgentIdFromDisplayName

SpecLookup == InitService /\ [][NextLookup]_vars

---------------------------------------------------------------------------
(* CacheManager over a scenario cache file that gets damaged *)

\* the environment: the file is truncated or overwritten with text that is
\* not JSON (a crash in the middle of a write, another program)
CorruptScenarioCacheFile ==
    /\ lastOp = Idle
    /\ ~IsCorrupt(scenario_cache_file)
    /\ scenario_cache_file' = CorruptFile
    /\ UNCHANGED <<stream, writers, lastOp, now, ENABLE_SCENARIO_CACHE, memory_cache,
                   situation_cache_file, validated, saves, ticks>>

NextRecovery ==
    \/ Return
    \/ NewCacheManager
    \/ GetCachedScenario
    \/ SaveScenarioCache
    \/ CorruptScenarioCacheFile

SpecRecovery == InitCache /\ [][NextRecovery]_vars

---------------------------------------------------------------------------
(* Two CacheManager instances saving to the same scenario cache file *)

\* the file is not read: the entry is put into an empty dict
save_load_Fresh(cache_file, cache_key, cached_data) ==
    DictSet(EmptyDict, cache_key, cached_data)

\* save_scenario_cache, lines 108-110: the file is loaded and the entry put
\* into the dict that was read
save_load(cache_file, cache_key, cached_data) ==
    DictSet(_load_cache_file(cache_file), cache_key, cached_data)

\* save_scenario_cache, lines 112-116: the size check, then the dict is
\* written over the file
save_write(cache_data) ==
    _save_cache_file(IF Len(cache_data) > MAX_CACHE_SIZE
                     THEN _evict_old_entries(cache_data)
                     ELSE cache_data)

InitConcurrent ==
    /\ ENABLE_SCENARIO_CACHE = TRUE
    /\ memory_cache = EmptyMem
    /\ \/ /\ now = 0
          /\ scenario_cache_file = NoFile
       \/ /\ now = 4
          /\ scenario_cache_file = EarlierScenarioFile
    /\ situation_cache_file = NoFile
    /\ validated = {}
    /\ saves = 0
    /\ ticks = 0
    /\ lastOp = Idle
    /\ stream = NoStream
    /\ writers = <<[pc |-> "idle"], [pc |-> "idle"]>>

\* a writer enters save_scenario_cache: it reads the clock, stores the record
\* in its own memory tier and loads the file; the two writers save different keys
SaveLoadFile ==
    /\ \E w \in 1 .. 2, event_name \in KnownEvents, scene_number \in SceneNumbers,
         content \in ScenarioContents :
        LET cache_key == ScenarioKey(event_name, scene_number)
            cached_data == CachedData(content, now)
        IN  /\ writers[w].pc = "idle"
            /\ writers[(3 - w)].pc # "idle" => writers[(3 - w)].cache_key # cache_key
            /\ writers' = [writers EXCEPT
                   ![w] = [pc |-> "loaded",
                           cache_key |-> cache_key,
                           content |-> content,
                           memory_cache |-> MemSet(EmptyMem, cache_key, cached_data),
                           cache_data |-> save_load(scenario_cache_file, cache_key, cached_data),
                           overlapped |-> writers[(3 - w)].pc = "loaded"]]
    /\ now' = now + 1
    /\ UNCHANGED <<stream, lastOp, ENABLE_SCENARIO_CACHE, memory_cache, scenario_cache_file,
                   situation_cache_file, validated, saves, ticks>>

\* the writer writes the dict it holds over the file and returns
SaveWriteFile ==
    /\ \E w \in 1 .. 2 :
        /\ writers[w].pc = "loaded"
        /\ scenario_cache_file' = save_write(writers[w].cache_data)
        /\ writers' = [writers EXCEPT ![w] = [writers[w] EXCEPT !.pc = "done"]]
    /\ UNCHANGED <<stream, lastOp, now, ENABLE_SCENARIO_CACHE, memory_cache,
                   situation_cache_file, validated, saves, ticks>>

NextConcurrent ==
    \/ SaveLoadFile
    \/ SaveWriteFile

SpecConcurrent == InitConcurrent /\ [][NextConcurrent]_vars

---------------------------------------------------------------------------
(* The two generating methods of one ScenarioGenerator *)

NextGate ==
    \/ Return
    \/ GetSceneWithVariation
    \/ GenerateRandomParentSituation

SpecGate == Init /\ [][NextGate]_vars

---------------------------------------------------------------------------
(* Helpers of the properties *)

Min(a, b) == IF a < b THEN a ELSE b

IsGetScene(op) == op.name = "get_scene_with_variation"
OpKey(op) == ScenarioKey(op.event_name, op.scene_number)
TemplateExists(op) == op.event_name \in KnownEvents /\ op.scene_number \in TemplateScenes
Called(op, callee) == callee \in Range(op.trace)
IsGenerated(value) == value # None /\ "situation_text" \in DOMAIN value

\* the entries of a cache file, and those of the memory tier, as <<key, content>>
FileEntries(cache_file) ==
    LET d == _load_cache_file(cache_file) IN {<<d[i][1], d[i][2].content>> : i \in 1 .. Len(d)}
MemEntries == {<<k, memory_cache[k].content>> : k \in DOMAIN memory_cache}

---------------------------------------------------------------------------
(* C1 as stated - quality gate.  A generated artifact is returned, and      *)
(* written to the cache, only with a verdict that has is_valid = true and a  *)
(* score of at least AI_QUALITY_THRESHOLD; an artifact whose verdict fails   *)
(* is neither returned nor cached; every scenario cache entry, in both       *)
(* tiers, holds an artifact that passed the gate for its key.                *)
QualityGate ==
    /\ FileEntries(scenario_cache_file) \subseteq validated
    /\ MemEntries \subseteq validated
    /\ IsGetScene(lastOp) =>
        /\ IsGenerated(lastOp.result) => <<OpKey(lastOp), lastOp.result>> \in validated
        /\ Called(lastOp, "save_scenario_cache") => PassesGate(lastOp.verdict)
        /\ (lastOp.verdict # None /\ ~PassesGate(lastOp.verdict)) =>
              /\ ~Called(lastOp, "save_scenario_cache")
              /\ ~IsGenerated(lastOp.result)

(* C2 - total Gateway failure.  With a base template for (topic, index) and  *)
(* the Gateway raising, a call with use_ai_generation and force_new returns  *)
(* exactly the base template and leaves both cache tiers as they were.       *)
GatewayFailureFallback ==
    [][(/\ IsGetScene(lastOp')
        /\ lastOp'.use_ai_generation
        /\ lastOp'.force_new
        /\ TemplateExists(lastOp')
        /\ lastOp'.gen = "raise")
       => /\ lastOp'.result = BaseTemplate(lastOp'.event_name, lastOp'.scene_number)
          /\ ~Called(lastOp', "validate_content_quality")
          /\ scenario_cache_file' = scenario_cache_file
          /\ memory_cache' = memory_cache]_vars

\* such a call was made with the Gateway raising, and the template came back
GatewayFailureWitness ==
    /\ IsGetScene(lastOp)
    /\ lastOp.use_ai_generation
    /\ lastOp.force_new
    /\ lastOp.gen = "raise"
    /\ lastOp.result = BaseTemplate(lastOp.event_name, lastOp.scene_number)
    /\ OpKey(lastOp) \notin DictKeys(_load_cache_file(scenario_cache_file))

(* C3 as stated - the result is never None: on every failure cause (no base *)
(* template, no generated artifact, a verdict below the gate) the value     *)
(* returned is the static base template.                                    *)
NeverAbsent ==
    (IsGetScene(lastOp) /\ ~Called(lastOp, "save_scenario_cache")
        /\ Called(lastOp, "_load_base_template"))
    => /\ lastOp.result # None
       /\ lastOp.result = BaseTemplate(lastOp.event_name, lastOp.scene_number)

(* C3 as amended - when a base template exists for (topic, index) the       *)
(* result is never None, and a call that reaches the template and accepts   *)
(* no artifact returns that template; when there is no base template and    *)
(* the cache gave no hit, the result is None.                               *)
TemplateFallback ==
    IsGetScene(lastOp) =>
        /\ TemplateExists(lastOp) => lastOp.result # None
        /\ (TemplateExists(lastOp) /\ Called(lastOp, "_load_base_template")
                /\ ~Called(lastOp, "save_scenario_cache"))
            => lastOp.result = BaseTemplate(lastOp.event_name, lastOp.scene_number)
        /\ (~TemplateExists(lastOp) /\ Called(lastOp, "_load_base_template"))
            => lastOp.result = None

\* a generated artifact was rejected by its verdict and the template returned
TemplateFallbackWitness ==
    /\ IsGetScene(lastOp)
    /\ lastOp.verdict # None
    /\ ~PassesGate(lastOp.verdict)
    /\ lastOp.result = BaseTemplate(lastOp.event_name, lastOp.scene_number)

(* C4 - with use_ai_generation false the call returns the static template   *)
(* (so no result is taken from the cache), makes no generation or           *)
(* validation call, and leaves both cache tiers as they were, whatever      *)
(* force_new is and whatever the cache holds.                               *)
NoVariationNoCache ==
    [][(IsGetScene(lastOp') /\ ~lastOp'.use_ai_generation /\ TemplateExists(lastOp'))
       => /\ lastOp'.result = BaseTemplate(lastOp'.event_name, lastOp'.scene_number)
          /\ ~Called(lastOp', "generate_scenario_variation")
          /\ ~Called(lastOp', "validate_content_quality")
          /\ ~Called(lastOp', "save_scenario_cache")
          /\ scenario_cache_file' = scenario_cache_file
          /\ memory_cache' = memory_cache]_vars

(* C5 - cache hit and force_new.  With use_ai_generation, force_new false   *)
(* and an unexpired entry for the key, the entry's content is returned and  *)
(* the only call made is the cache lookup (no Gateway call, no template     *)
(* load); with force_new the cache is not consulted and generation is       *)
(* attempted even if an unexpired entry exists.                             *)
UnexpiredContents(key) ==
    {memory_cache[k].content :
        k \in {x \in DOMAIN memory_cache \cap {key} : _is_cache_valid(memory_cache[x], now)}}
    \cup
    LET d == _load_cache_file(scenario_cache_file) IN
    {d[i][2].content : i \in {j \in 1 .. Len(d) : d[j][1] = key /\ _is_cache_valid(d[j][2], now)}}

CacheHitAndForceNew ==
    [][(IsGetScene(lastOp') /\ lastOp'.use_ai_generation)
       => /\ (~lastOp'.force_new /\ UnexpiredContents(OpKey(lastOp')) # {})
              => /\ lastOp'.result \in UnexpiredContents(OpKey(lastOp'))
                 /\ lastOp'.trace = <<"get_cached_scenario">>
          /\ lastOp'.force_new
              => /\ ~Called(lastOp', "get_cached_scenario")
                 /\ UnexpiredContents(OpKey(lastOp')) # {}
                      => Called(lastOp', "generate_scenario_variation")]_vars

\* a lookup hit: a generated artifact came back from the cache alone
CacheHitWitness ==
    /\ IsGetScene(lastOp)
    /\ lastOp.use_ai_generation
    /\ ~lastOp.force_new
    /\ lastOp.trace = <<"get_cached_scenario">>
    /\ IsGenerated(lastOp.result)

---------------------------------------------------------------------------
(* Properties of the CacheManager *)

IsSave(op) == op.name \in {"save_scenario_cache", "save_situation_cache"}
IsGet(op) == op.name \in {"get_cached_scenario", "get_cached_situation"}

\* the file of the content class a call works on, now and after the step
FileOf(op) ==
    IF op.name \in {"save_scenario_cache", "get_cached_scenario"}
    THEN scenario_cache_file ELSE situation_cache_file
FileOfNext(op) ==
    IF op.name \in {"save_scenario_cache", "get_cached_scenario"}
    THEN scenario_cache_file' ELSE situation_cache_file'

(* C6 - cache bound.  Starting from files within the bound, the disk tier   *)
(* of each content class never holds more than MAX_CACHE_SIZE entries.      *)
CacheBound ==
    /\ Len(_load_cache_file(scenario_cache_file)) <= MAX_CACHE_SIZE
    /\ Len(_load_cache_file(situation_cache_file)) <= MAX_CACHE_SIZE

\* a save of a new key into a full file has just completed
CacheBoundWitness ==
    /\ IsSave(lastOp)
    /\ Len(_load_cache_file(FileOf(lastOp))) = MAX_CACHE_SIZE
    /\ DictKeys(_load_cache_file(FileOf(lastOp)))
         # DictKeys(_load_cache_file(IF lastOp.name = "save_scenario_cache"
                                     THEN EarlierScenarioFile
                                     ELSE EarlierSituationFile))
    /\ saves = MaxSaves

ExpiredReadRemoves ==
    [][(IsGet(lastOp') /\ ENABLE_SCENARIO_CACHE
            /\ DictHas(_load_cache_file(FileOf(lastOp')), lastOp'.key)
            /\ ~_is_cache_valid(DictGet(_load_cache_file(FileOf(lastOp')), lastOp'.key), now))
       => /\ lastOp'.result = None
          /\ ~DictHas(_load_cache_file(FileOfNext(lastOp')), lastOp'.key)
          /\ ~MemHas(memory_cache', lastOp'.key)]_vars

---------------------------------------------------------------------------
\* the shape of a QualityVerdict: is_valid a boolean, score an integer in
\* 0..100, issues and suggestions lists
IsQualityVerdict(value) ==
    /\ value # None
    /\ DOMAIN value = {"is_valid", "score", "issues", "suggestions"}
    /\ value.is_valid.type = "bool"
    /\ value.score.type = "int"
    /\ value.score.val \in 0 .. 100
    /\ value.issues.type = "list"
    /\ value.suggestions.type = "list"

IsValidate(op) == op.name = "validate_content_quality"

\* the response holds no JSON value at all
Unparseable(resp) == resp.kind \in {"raise", "malformed"}

(* C11 - validator fail-open.  Whenever the Gateway call raises or its       *)
(* response is not JSON, validate_content_quality returns exactly the        *)
(* verdict {is_valid: true, score: 70, issues: [], suggestions: []}; it      *)
(* always returns a value.                                                   *)
ValidatorFailOpen ==
    IsValidate(lastOp) =>
        /\ lastOp.result # None
        /\ Unparseable(lastOp.resp) =>
            lastOp.result = [is_valid |-> JBool(TRUE), score |-> JInt(70),
                             issues |-> JList(<<>>), suggestions |-> JList(<<>>)]

\* the validator was called with a response that is not JSON and answered
\* with the default verdict
ValidatorFailOpenWitness ==
    /\ IsValidate(lastOp)
    /\ lastOp.resp.kind = "malformed"
    /\ lastOp.result.score = JInt(70)
    /\ lastOp.result.is_valid = JBool(TRUE)

(* C12 as stated - verdict shape.  Every value validate_content_quality      *)
(* returns is a QualityVerdict (is_valid a boolean, score an integer in      *)
(* 0..100, issues and suggestions lists), and a JSON response that deviates  *)
(* from this shape is replaced by the default verdict.                       *)
VerdictShape ==
    IsValidate(lastOp) =>
        /\ IsQualityVerdict(lastOp.result)
        /\ (lastOp.resp.kind = "json"
              /\ ~(lastOp.resp.body.type = "dict" /\ IsQualityVerdict(lastOp.resp.body.val)))
            => lastOp.result = DefaultVerdict

---------------------------------------------------------------------------
IsStream(op) == stream # NoStream /\ stream.op = op

\* events is start_i, chunk_i*, end_i for the personas i, i+1, ... in registry
\* order; inside tells whether the start marker of persona i has been read
RECURSIVE InPersonaOrder(_, _, _)
InPersonaOrder(events, i, inside) ==
    IF events = <<>> THEN i = Len(AGENTS) + 1 /\ ~inside
    ELSE IF i > Len(AGENTS) THEN FALSE
    ELSE IF Head(events).agent_id # AGENTS[i] THEN FALSE
    ELSE IF Head(events).chunk = "__START__" THEN ~inside /\ InPersonaOrder(Tail(events), i, TRUE)
    ELSE IF Head(events).chunk = "__END__" THEN inside /\ InPersonaOrder(Tail(events), i + 1, FALSE)
    ELSE inside /\ InPersonaOrder(Tail(events), i, TRUE)

\* the position of persona agent_id in the registry

\* the number of blocking persona calls among the first j calls
BlockingCalls(calls, j) == Cardinality({k \in 1 .. j : calls[k].kind = "blocking"})

(* C13 as stated - sequential ordering.  With a Gateway that raises nothing, *)
(* the events yielded by generate_sequential_expert_responses_stream are     *)
(* exactly start_1, chunk_1*, end_1, ..., start_4, chunk_4*, end_4 in        *)
(* registry order, and the stream of a persona is opened right after its own *)
(* start marker, hence after the end marker of the persona before it.        *)
SequentialOrdering ==
    (IsStream("sequential") /\ ~stream.gateway_raised) =>
        /\ stream.pc = "done" => InPersonaOrder(stream.events, 1, FALSE)
        /\ \A j \in 1 .. Len(stream.calls) :
            /\ stream.calls[j].agent_id = AGENTS[j]
            /\ stream.calls[j].at >= 1
            /\ stream.events[stream.calls[j].at] = Event(AGENTS[j], "__START__")
            /\ j > 1 => stream.events[stream.calls[j].at - 1] = Event(AGENTS[j - 1], "__END__")

(* C14 - streaming failure containment.  In each of the four generators, a   *)
(* step in which the Gateway raises (while the stream is opened or while it  *)
(* is consumed) leaves the events already yielded in place, adds exactly one *)
(* diagnostic chunk and ends the generator; no exception ever leaves a       *)
(* generator, and nothing is yielded after the diagnostic chunk.             *)
StreamFailureContained ==
    [][/\ stream' # NoStream => ~stream'.raised
       /\ (stream # NoStream /\ stream' # NoStream
             /\ ~stream.gateway_raised /\ stream'.gateway_raised)
          => /\ stream'.events = Append(stream.events, Diagnostic(stream.op))
             /\ stream'.pc = "done"
       /\ (stream # NoStream /\ stream.pc = "done") => stream' = NoStream]_vars

\* the Gateway raised in the middle of the second persona's stream of the
\* sequential generator, after a chunk of it had been forwarded
StreamFailureWitness ==
    /\ IsStream("sequential")
    /\ stream.gateway_raised
    /\ stream.pc = "done"
    /\ stream.index = 2
    /\ stream.received > 0
    /\ stream.events[Len(stream.events)] = Event("error", "failed")
    /\ stream.events[Len(stream.events) - 1] = Event(AGENTS[2], "text")

(* C15 - comprehensive ordering.  In generate_comprehensive_response_stream  *)
(* the blocking persona calls are made in registry order, the synthesis      *)
(* stream is opened only after all four of them have returned, and no chunk  *)
(* is yielded before the fourth has returned.                                *)
ComprehensiveOrdering ==
    IsStream("comprehensive") =>
        /\ \A j \in 1 .. Len(stream.calls) :
            /\ stream.calls[j].kind = "blocking" =>
                  /\ stream.calls[j].agent_id = AGENTS[BlockingCalls(stream.calls, j)]
                  /\ stream.calls[j].at = 0
            /\ stream.calls[j].kind = "validate" =>
                  /\ j > 1
                  /\ stream.calls[j - 1].kind = "blocking"
                  /\ stream.calls[j - 1].agent_id = stream.calls[j].agent_id
            /\ stream.calls[j].kind = "stream" =>
                  /\ BlockingCalls(stream.calls, j) = Len(AGENTS)
                  /\ j = Len(stream.calls)
        /\ stream.events # <<>> => BlockingCalls(stream.calls, Len(stream.calls)) = Len(AGENTS)

\* the synthesis was streamed after four persona calls of which one failed
ComprehensiveOrderingWitness ==
    /\ IsStream("comprehensive")
    /\ stream.pc = "done"
    /\ ~stream.failed
    /\ stream.events = <<"text">>
    /\ Len(stream.individual_responses) = Len(AGENTS) - 1
    /\ BlockingCalls(stream.calls, Len(stream.calls)) = Len(AGENTS)

---------------------------------------------------------------------------
IsParent(op) == op.name = "generate_random_parent_situation"

\* the gate of the specification for parent situations, on the verdict alone
PassesParentGate(verdict) ==
    /\ verdict # None
    /\ "is_valid" \in DOMAIN verdict
    /\ "score" \in DOMAIN verdict
    /\ verdict.is_valid = JBool(TRUE)
    /\ verdict.score.type = "int"
    /\ verdict.score.val >= PARENT_QUALITY_THRESHOLD

\* the pre-authored situations of the guide for the topic of the call
GuideFor(op) == {s \in op.guide : s.event = op.event_name}

(* C16 as stated - bounded retry then fallback.  A call makes at most        *)
(* max_attempts generation attempts; a generated situation is returned only  *)
(* for the first attempt whose verdict has is_valid = true and score >= 75,  *)
(* and no attempt follows it; when no attempt is accepted, the result is a   *)
(* pre-authored situation of the topic whenever the guide holds one.         *)
BoundedRetryThenFallback ==
    IsParent(lastOp) =>
        /\ lastOp.attempts <= lastOp.max_attempts
        /\ Len(lastOp.verdicts) = lastOp.attempts
        /\ \A i \in 1 .. lastOp.attempts :
              PassesParentGate(lastOp.verdicts[i]) =>
                  /\ i = lastOp.attempts
                  /\ lastOp.path = "generated"
        /\ lastOp.path = "generated" =>
              /\ lastOp.attempts >= 1
              /\ PassesParentGate(lastOp.verdicts[lastOp.attempts])
              /\ lastOp.result \notin lastOp.guide
        /\ (\A i \in 1 .. lastOp.attempts : ~PassesParentGate(lastOp.verdicts[i])) =>
              (GuideFor(lastOp) # {} => lastOp.result \in GuideFor(lastOp))

---------------------------------------------------------------------------
\* exactly three choices, one per label
OnePerLabel(choices) ==
    /\ Len(choices) = Len(Labels)
    /\ \A i \in 1 .. Len(Labels) :
          Cardinality({j \in 1 .. Len(choices) : choices[j] = Labels[i]}) = 1

(* C17 as stated - evaluation-label closure.  Every generated artifact that  *)
(* get_scene_with_variation returns, and every artifact in either tier of    *)
(* the scenario cache, has exactly three choices, one per label in           *)
(* {appropriate, acceptable, inappropriate}, whatever the Gateway returned.  *)
LabelClosure ==
    /\ (IsGetScene(lastOp) /\ IsGenerated(lastOp.result)) => OnePerLabel(lastOp.result.choices)
    /\ \A entry \in FileEntries(scenario_cache_file) \cup MemEntries :
          OnePerLabel(entry[2].choices)

---------------------------------------------------------------------------
IsLookup(op) == op.name = "get_agent_id_from_display_name"

\* the name portion of a display name: what follows its first space, the
\* whole of it when it has no space
IsNamePortion(display_name, portion) ==
    \/ /\ \A i \in 1 .. Len(display_name) : display_name[i] # " "
       /\ portion = display_name
    \/ \E k \in 1 .. Len(display_name) :
        /\ display_name[k] = " "
        /\ \A i \in 1 .. k - 1 : display_name[i] # " "
        /\ Len(portion) = Len(display_name) - k
        /\ \A i \in 1 .. Len(portion) : portion[i] = display_name[k + i]

(* C18 - persona lookup by display name.  For every persona of the registry, *)
(* the lookup of icon + " " + name gives its id, and so does the lookup of   *)
(* every display name built from an item of list_agents; a display name      *)
(* whose name portion is the name of no persona gives None.                  *)
PersonaLookup ==
    /\ IsLookup(lastOp) =>
        /\ \A i \in 1 .. Len(AGENTS) :
              lastOp.display_name = AgentIcon(AGENTS[i]) \o <<" ">> \o AgentName(AGENTS[i])
                  => lastOp.result = AGENTS[i]
        /\ (\A i \in 1 .. Len(AGENTS) :
                ~IsNamePortion(lastOp.display_name, AgentName(AGENTS[i])))
              => lastOp.result = None
    /\ lastOp.name = "list_agents" =>
        /\ Len(lastOp.result) = Len(AGENTS)
        /\ \A i \in 1 .. Len(lastOp.result) :
              get_agent_id_from_display_name(
                  lastOp.result[i].icon \o <<" ">> \o lastOp.result[i].name) = lastOp.result[i].id

\* the display name of the fourth persona was looked up and gave its id
PersonaLookupWitness ==
    /\ IsLookup(lastOp)
    /\ lastOp.display_name = AgentIcon(AGENTS[4]) \o <<" ">> \o AgentName(AGENTS[4])
    /\ lastOp.result = AGENTS[4]

---------------------------------------------------------------------------
\* what the memory tier alone answers for a key
MemoryAnswer(key) ==
    IF ENABLE_SCENARIO_CACHE /\ MemHas(memory_cache, key)
          /\ _is_cache_valid(memory_cache[key], now)
    THEN memory_cache[key].content
    ELSE None

\* the save that follows on a damaged file leaves exactly its own entry
SaveRewrites ==
    (lastOp'.name = "save_scenario_cache" /\ lastOp'.corrupt /\ ENABLE_SCENARIO_CACHE)
    => /\ ~IsCorrupt(scenario_cache_file')
       /\ FileEntries(scenario_cache_file') = {<<lastOp'.key, lastOp'.content>>}

---------------------------------------------------------------------------
\* both writers have returned from save_scenario_cache
BothDone == writers # NoWriters /\ writers[1].pc = "done" /\ writers[2].pc = "done"

\* the entry of writer w is in the file
InFile(w) ==
    <<writers[w].cache_key, writers[w].content>> \in FileEntries(scenario_cache_file)

\* one of the two loaded the file while the other was between its load and
\* its write
Interleaved ==
    \E w \in 1 .. 2 : writers[w].pc # "idle" /\ writers[w].overlapped

RecordsOf(kind) == {i \in 1 .. Len(stream.records) : stream.records[i].kind = kind}

\* the single-expert generator has returned for a persona of the registry
SingleReturned ==
    /\ IsStream("single")
    /\ stream.agent_id \in Range(AGENTS)
    /\ stream.pc = "done"

(* C21 as stated - telemetry per single-expert stream.  Every invocation of  *)
(* generate_single_expert_response_stream for a known persona, whether its   *)
(* stream completes or ends with an exception, emits exactly one             *)
(* APICallRecord, and exactly one EvaluationRecord if and only if the        *)
(* concatenated text is non-empty; the APICallRecord comes before the        *)
(* EvaluationRecord and after the last text chunk was yielded.               *)
SingleStreamTelemetry ==
    SingleReturned =>
        /\ Cardinality(RecordsOf("api_call")) = 1
        /\ Cardinality(RecordsOf("evaluation")) = IF stream.collected_response > 0 THEN 1 ELSE 0
        /\ \A i \in RecordsOf("api_call") :
            /\ stream.records[i].at = stream.collected_response
            /\ \A j \in RecordsOf("evaluation") : i < j

(* C21 amended.  An invocation whose stream could not be established emits   *)
(* no record.  An invocation whose stream was established, whether the       *)
(* stream ends or raises, hands exactly one APICallRecord to the collector   *)
(* after the last text chunk, unless add_api_call itself raises; an          *)
(* EvaluationRecord follows it if and only if the concatenated text is       *)
(* non-empty and neither add_api_call nor the evaluation step raised.        *)
SingleStreamTelemetryEstablished ==
    SingleReturned =>
        /\ ~stream.established => stream.records = <<>>
        /\ stream.established =>
            /\ Cardinality(RecordsOf("api_call")) =
                  IF "add_api_call" \in stream.caught THEN 0 ELSE 1
            /\ Cardinality(RecordsOf("evaluation")) =
                  IF stream.collected_response > 0
                        /\ stream.caught \cap {"add_api_call", "evaluation"} = {}
                  THEN 1 ELSE 0
            /\ \A i \in RecordsOf("api_call") :
                /\ stream.records[i].at = stream.collected_response
                /\ \A j \in RecordsOf("evaluation") : i < j

\* the Gateway raised after a chunk of text had been forwarded, and both
\* records were handed to the collector before the diagnostic chunk
SingleStreamTelemetryWitness ==
    /\ SingleReturned
    /\ stream.established
    /\ stream.gateway_raised
    /\ stream.collected_response > 0
    /\ Len(stream.records) = 2
    /\ stream.records[1].kind = "api_call"
    /\ stream.records[2].kind = "evaluation"
    /\ stream.events[Len(stream.events)] = Diagnostic("single")


\* a generator that tests chunk.choices before it reads the delta
GuardedStream == stream # NoStream /\ stream.op \in {"single", "quick", "comprehensive"}

Diagnostics == {i \in 1 .. Len(stream.events) : stream.events[i] = Diagnostic(stream.op)}

(* C23 - finalization never masks the stream outcome.  When the collector,   *)
(* the token estimation or the quality validation raises in the finally      *)
(* clause of a streaming generator, the caller sees the chunks it would have *)
(* seen otherwise: a stream that ended normally yields no diagnostic chunk,  *)
(* a stream that failed yields its one diagnostic chunk, as the last chunk.  *)
FinalizationNeverMasks ==
    (stream # NoStream /\ stream.op # "none" /\ stream.caught # {}) =>
        /\ ~stream.raised
        /\ Diagnostics \subseteq {Len(stream.events)}
        /\ stream.pc = "done" =>
              (Diagnostics # {} <=> (stream.gateway_raised \/ stream.loop_raised))
        /\ GuardedStream =>
              Len(stream.events) = stream.collected_response + Cardinality(Diagnostics)

\* the stream ended normally after a chunk of text; the token counter could
\* not be loaded and the validator could not be constructed, and the caller
\* saw the chunk of text alone
FinalizationNeverMasksWitness ==
    /\ IsStream("single")
    /\ stream.pc = "done"
    /\ ~stream.gateway_raised
    /\ stream.caught = {"tokenizer", "evaluation"}
    /\ stream.events = <<"text">>


(* C24 as stated - the sequential generator handles an element of the        *)
(* Gateway's stream as the single-expert generator does: an element without  *)
(* a text delta, the usage-only element with an empty choice list included,  *)
(* raises nothing, its usage counts are recorded, the end marker of the      *)
(* persona is still yielded and the next persona proceeds.                   *)
SequentialSkipsUsageElement ==
    IsStream("sequential") =>
        /\ ~stream.loop_raised
        /\ stream.reported => stream.usage_info
        /\ \A i \in RecordsOf("api_call") :
              stream.records[i].reported => stream.records[i].tokens = ReportedUsage
        /\ (stream.pc = "done" /\ ~stream.gateway_raised) =>
              /\ InPersonaOrder(stream.events, 1, FALSE)
              /\ stream.events[Len(stream.events)] = Event(AGENTS[Len(AGENTS)], "__END__")


\* the calls of a callee in the trace of an operation, by their positions
CallsOf(op, callee) == {i \in 1 .. Len(op.trace) : op.trace[i] = callee}

(* C25 - Gateway call budget.  One call of get_scene_with_variation issues   *)
(* at most one generation call and at most one validation call; the          *)
(* validation call is issued only after the generation call returned an      *)
(* artifact; the generation is never retried: when it fails or its artifact  *)
(* is rejected, the base template is returned.                               *)
GatewayCallBudget ==
    IsGetScene(lastOp) =>
        /\ Cardinality(CallsOf(lastOp, "generate_scenario_variation")) <= 1
        /\ Cardinality(CallsOf(lastOp, "validate_content_quality")) <= 1
        /\ \A j \in CallsOf(lastOp, "validate_content_quality") :
            /\ lastOp.gen = "json"
            /\ j > 1
            /\ lastOp.trace[j - 1] = "generate_scenario_variation"
        /\ (Called(lastOp, "generate_scenario_variation")
                /\ ~Called(lastOp, "save_scenario_cache")) =>
              lastOp.result = _load_base_template(lastOp.event_name, lastOp.scene_number)

\* the artifact of the one generation call was rejected by the one validation
\* call, and the base template was returned
GatewayCallBudgetWitness ==
    /\ IsGetScene(lastOp)
    /\ lastOp.gen = "json"
    /\ lastOp.trace = <<"get_cached_scenario", "_load_base_template",
                        "generate_scenario_variation", "validate_content_quality">>
    /\ lastOp.verdict = Verdict(TRUE, AI_QUALITY_THRESHOLD - 1)
    /\ lastOp.result = _load_base_template(lastOp.event_name, lastOp.scene_number)


(* C26 as stated - content-class isolation.  get_cached_scenario returns     *)
(* only content stored by save_scenario_cache for the same topic and index,  *)
(* and get_cached_situation only content stored by save_situation_cache for  *)
(* the same topic and id, also when an index and an id render to the same    *)
(* composite key within one CacheManager.                                    *)
ContentClassIsolation ==
    /\ (lastOp.name = "get_cached_scenario" /\ lastOp.result # None) =>
          lastOp.result \in ScenarioContents \cup {EarlierScenario}
    /\ (lastOp.name = "get_cached_situation" /\ lastOp.result # None) =>
          lastOp.result \in SituationContents \cup {EarlierSituation}


\* the file of the content class of a call holds an unexpired entry for the
\* key with the content
OnDisk(op, key, content) ==
    LET d == _load_cache_file(FileOf(op))
    IN  \E i \in 1 .. Len(d) :
            d[i][1] = key /\ d[i][2].content = content /\ _is_cache_valid(d[i][2], now)

(* C27 as stated - the memory tier never outlives the disk tier.  Whenever   *)
(* get_cached_scenario or get_cached_situation returns a hit, the file of    *)
(* that content class holds an unexpired entry for the same key with the     *)
(* same content; an entry evicted from the file is not returned any more.    *)
MemoryNeverOutlivesDisk ==
    (IsGet(lastOp) /\ lastOp.result # None) => OnDisk(lastOp, lastOp.key, lastOp.result)


(* C28 as stated - well-bracketed sequential stream.  Every start marker     *)
(* yielded by generate_sequential_expert_responses_stream is followed by the *)
(* end marker of the same persona before the stream terminates and before    *)
(* the start marker of another persona, also when the Gateway raises while   *)
(* the stream of that persona is opened or consumed.                         *)
SequentialWellBracketed ==
    (IsStream("sequential") /\ stream.pc = "done") =>
        \A i \in 1 .. Len(stream.events) :
            stream.events[i].chunk = "__START__" =>
                \E j \in (i + 1) .. Len(stream.events) :
                    /\ stream.events[j] = Event(stream.events[i].agent_id, "__END__")
                    /\ \A k \in (i + 1) .. (j - 1) : stream.events[k].chunk # "__START__"


CallsOfKind(kind) == SelectSeq(stream.calls, LAMBDA c : c.kind = kind)

\* the personas that were asked, in order
Asked == [i \in 1 .. Len(CallsOfKind("blocking")) |-> CallsOfKind("blocking")[i].agent_id]

(* C30 - partial failure in comprehensive mode.  A persona whose blocking    *)
(* call gives no answer is skipped: the loop goes on with the remaining      *)
(* personas, all four are asked in registry order, the synthesis stream is   *)
(* opened exactly once after the last of them, over the answers that were    *)
(* obtained (none, possibly), and nothing is yielded before the synthesis    *)
(* stream is opened, so no diagnostic chunk belongs to a persona.            *)
PartialFailureSkipped ==
    (IsStream("comprehensive") /\ Len(stream.individual_responses) < Len(Asked)) =>
        /\ Range(stream.individual_responses) \subseteq Range(Asked)
        /\ stream.pc = "persona" =>
              /\ Asked = SubSeq(AGENTS, 1, stream.index - 1)
              /\ CallsOfKind("stream") = <<>>
              /\ stream.events = <<>>
        /\ stream.pc = "open" =>
              /\ Asked = AGENTS
              /\ CallsOfKind("stream") = <<>>
              /\ stream.events = <<>>
        /\ stream.pc \in {"consume", "done"} =>
              /\ Asked = AGENTS
              /\ CallsOfKind("stream") = <<GatewayCall("stream", "synthesis", [events |-> <<>>])>>
              /\ stream.calls[Len(stream.calls)].kind = "stream"
              /\ Diagnostics # {} => stream.gateway_raised

\* with debugging on, the first and the third persona raised (no validation
\* call follows their blocking call), the other two answered, and the
\* synthesis stream was opened once and ended normally
PartialFailureSkippedWitness ==
    /\ IsStream("comprehensive")
    /\ stream.env.debug_mode
    /\ stream.pc = "done"
    /\ ~stream.failed
    /\ stream.individual_responses = <<AGENTS[2], AGENTS[4]>>
    /\ [i \in 1 .. Len(stream.calls) |-> <<stream.calls[i].kind, stream.calls[i].agent_id>>]
         = << <<"blocking", AGENTS[1]>>,
              <<"blocking", AGENTS[2]>>, <<"validate", AGENTS[2]>>,
              <<"blocking", AGENTS[3]>>,
              <<"blocking", AGENTS[4]>>, <<"validate", AGENTS[4]>>,
              <<"stream", "synthesis">> >>
    /\ stream.events # <<>>

=============================================================================
